---- MODULE Spec2Model ----
(***************************************************************************)
(* Model of scripts/submit-v2.py: a one-shot script that serialises a      *)
(* fixed post (title, content, submolt id) to JSON, POSTs it once with     *)
(* urllib.request.urlopen, and reports the outcome on stdout and in its    *)
(* exit status.                                                            *)
(*                                                                         *)
(* Text is modelled as sequences of Unicode code points, bytes as          *)
(* sequences of numbers 0..255.  The request payload is serialised and     *)
(* parsed character by character.  A response body is modelled by the      *)
(* value json.loads yields for it (or by the exception it raises); an      *)
(* error body is modelled by its bytes.                                    *)
(***************************************************************************)
EXTENDS Integers, Sequences, FiniteSets, TLC

VARIABLES
    TITLE,          \* configured title (code points)
    CONTENT,        \* configured content (code points)
    USDC_SUBMOLT,   \* configured target identifier (code points)
    run,            \* number of the current invocation of the script
    pc,             \* position of the current invocation
    payload,        \* bytes built at lines 135-139 (<<>> before that)
    req,            \* the Request object of lines 141-149 (None before)
    wire,           \* every request the endpoint has received, all runs
    outcome,        \* what urlopen produced in this run (None before)
    stdout,         \* lines the current invocation printed
    exit_code,      \* exit status of the current invocation (-1: running)
    fault,          \* exception that ended the invocation unhandled
    history         \* exit statuses of the earlier invocations

vars == <<TITLE, CONTENT, USDC_SUBMOLT, run, pc, payload, req, wire,
          outcome, stdout, exit_code, fault, history>>

config == <<TITLE, CONTENT, USDC_SUBMOLT>>

----------------------------------------------------------------------------
(* Bounds of the model *)

MaxStrLen == 2      \* longest title drawn by InitPayload
MaxRuns == 2        \* invocations of the script in one behaviour

\* a, n, LF, double quote, backslash, DEL, e acute (two bytes of UTF-8),
\* em dash (three bytes), robot face (beyond the BMP): one character of
\* every class json.dumps and UTF-8 treat differently
Alphabet == {97, 110, 10, 34, 92, 127, 233, 8212, 129302}

StringsUpTo(n) == UNION {[1..k -> Alphabet] : k \in 0..n}

\* the empty string and every string of one character
ShortStrings == StringsUpTo(1)

None == [t |-> "None"]

----------------------------------------------------------------------------
(* Text helpers *)

\* the concatenation of a sequence of sequences (halving keeps the
\* evaluation shallow)
RECURSIVE Flatten(_)
Flatten(ss) ==
    IF ss = <<>> THEN <<>>
    ELSE IF Len(ss) = 1 THEN ss[1]
    ELSE LET h == Len(ss) \div 2
         IN  Flatten(SubSeq(ss, 1, h)) \o Flatten(SubSeq(ss, h + 1, Len(ss)))

\* code points of the ASCII literals the script and json.dumps emit
Ascii(c) ==
    CASE c = "{" -> 123 [] c = "}" -> 125 [] c = ":" -> 58 [] c = "," -> 44
      [] c = " " -> 32 [] c = "\"" -> 34 [] c = "\\" -> 92 [] c = "_" -> 95
      [] c = "a" -> 97 [] c = "b" -> 98 [] c = "c" -> 99 [] c = "d" -> 100
      [] c = "e" -> 101 [] c = "f" -> 102 [] c = "h" -> 104 [] c = "i" -> 105
      [] c = "l" -> 108 [] c = "z" -> 122
      [] c = "m" -> 109 [] c = "n" -> 110 [] c = "o" -> 111 [] c = "r" -> 114
      [] c = "s" -> 115 [] c = "t" -> 116 [] c = "u" -> 117

Lit(cs) == [i \in 1..Len(cs) |-> Ascii(cs[i])]

KEY_TITLE == Lit(<<"t", "i", "t", "l", "e">>)
KEY_CONTENT == Lit(<<"c", "o", "n", "t", "e", "n", "t">>)
KEY_SUBMOLT_ID == Lit(<<"s", "u", "b", "m", "o", "l", "t", "_", "i", "d">>)

----------------------------------------------------------------------------
(* json.dumps of a dict of strings (ensure_ascii=True, default separators) *)

HexDigit(d) == IF d < 10 THEN 48 + d ELSE 87 + d

\* "\\u{0:04x}".format(u)
UEscape(u) ==
    <<92, 117, HexDigit(u \div 4096), HexDigit((u \div 256) % 16),
      HexDigit((u \div 16) % 16), HexDigit(u % 16)>>

\* EscapeChar with the backslash left as it is
EscapeCharNoBackslash(c) ==
    CASE c = 34 -> <<92, 34>>
      [] c = 10 -> <<92, 110>>
      [] c = 13 -> <<92, 114>>
      [] c = 9  -> <<92, 116>>
      [] c = 8  -> <<92, 98>>
      [] c = 12 -> <<92, 102>>
      [] c >= 32 /\ c <= 126 /\ c # 34 -> <<c>>
      [] c >= 65536 ->
            UEscape(55296 + (((c - 65536) \div 1024) % 1024))
               \o UEscape(56320 + ((c - 65536) % 1024))
      [] OTHER -> UEscape(c)

\* json.encoder.py_encode_basestring_ascii, one character
EscapeChar(c) ==
    CASE c = 34 -> <<92, 34>>
      [] c = 92 -> <<92, 92>>
      [] c = 10 -> <<92, 110>>
      [] c = 13 -> <<92, 114>>
      [] c = 9  -> <<92, 116>>
      [] c = 8  -> <<92, 98>>
      [] c = 12 -> <<92, 102>>
      [] c >= 32 /\ c <= 126 /\ c # 34 /\ c # 92 -> <<c>>
      [] c >= 65536 ->
            UEscape(55296 + (((c - 65536) \div 1024) % 1024))
               \o UEscape(56320 + ((c - 65536) % 1024))
      [] OTHER -> UEscape(c)

EncodeString(s) ==
    <<34>> \o Flatten([i \in 1..Len(s) |-> EscapeChar(s[i])]) \o <<34>>

RECURSIVE EncodeItems(_)
EncodeItems(items) ==
    IF items = <<>> THEN <<>>
    ELSE EncodeString(Head(items)[1]) \o <<58, 32>>
            \o EncodeString(Head(items)[2])
            \o (IF Len(items) > 1 THEN <<44, 32>> ELSE <<>>)
            \o EncodeItems(Tail(items))

\* json.dumps(d) for a dict d given as its items, in insertion order
json_dumps(items) == <<123>> \o EncodeItems(items) \o <<125>>

----------------------------------------------------------------------------
(* str.encode() and bytes.decode(): UTF-8 *)

Utf8Char(c) ==
    IF c < 128 THEN <<c>>
    ELSE IF c < 2048 THEN <<192 + (c \div 64), 128 + (c % 64)>>
    ELSE IF c < 65536 THEN
        <<224 + (c \div 4096), 128 + ((c \div 64) % 64), 128 + (c % 64)>>
    ELSE <<240 + (c \div 262144), 128 + ((c \div 4096) % 64),
           128 + ((c \div 64) % 64), 128 + (c % 64)>>

encode(s) == Flatten([i \in 1..Len(s) |-> Utf8Char(s[i])])

IsCont(bs, i) == i <= Len(bs) /\ bs[i] >= 128 /\ bs[i] <= 191

\* length of the sequence a lead byte opens, 0 for a byte that opens none
LeadLen(b) ==
    IF b < 128 THEN 1
    ELSE IF b >= 194 /\ b <= 223 THEN 2
    ELSE IF b >= 224 /\ b <= 239 THEN 3
    ELSE IF b >= 240 /\ b <= 244 THEN 4
    ELSE 0

\* the code point of the sequence that starts at i
CharAt(bs, i) ==
    LET b == bs[i]
        n == LeadLen(b)
    IN  CASE n = 1 -> b
          [] n = 2 -> (b - 192) * 64 + (bs[i + 1] - 128)
          [] n = 3 -> (b - 224) * 4096 + (bs[i + 1] - 128) * 64
                          + (bs[i + 2] - 128)
          [] n = 4 -> (b - 240) * 262144 + (bs[i + 1] - 128) * 4096
                          + (bs[i + 2] - 128) * 64 + (bs[i + 3] - 128)
          [] OTHER -> 0

\* a complete, shortest-form sequence of a scalar value starts at i
WellFormedAt(bs, i) ==
    LET n == LeadLen(bs[i])
    IN  /\ n > 0
        /\ \A k \in 1..(n - 1) : IsCont(bs, i + k)
        /\ n = 3 => /\ CharAt(bs, i) >= 2048
                    /\ ~(CharAt(bs, i) >= 55296 /\ CharAt(bs, i) <= 57343)
        /\ n = 4 => /\ CharAt(bs, i) >= 65536
                    /\ CharAt(bs, i) <= 1114111

\* a continuation byte at j belongs to the sequence opened d bytes before
BelongsTo(bs, j, d) ==
    /\ j - d >= 1
    /\ ~IsCont(bs, j - d)
    /\ d < LeadLen(bs[j - d])
    /\ \A e \in 1..(d - 1) : IsCont(bs, j - e)

IsScalar(c) == c >= 0

\* bytes.decode(): strict UTF-8; ok = FALSE stands for UnicodeDecodeError.
\* A sequence starts at every byte that is no continuation byte.
decode(bs) ==
    IF \A i \in DOMAIN bs :
           IF IsCont(bs, i) THEN \E d \in 1..3 : BelongsTo(bs, i, d)
           ELSE WellFormedAt(bs, i)
    THEN [ok |-> TRUE,
          text |-> SelectSeq([i \in DOMAIN bs |->
                                 IF IsCont(bs, i) THEN -1 ELSE CharAt(bs, i)],
                             IsScalar)]
    ELSE [ok |-> FALSE, text |-> <<>>]

----------------------------------------------------------------------------
(* Parsing a request body back: json.loads restricted to an object whose   *)
(* values are strings (json.decoder.JSONObject and py_scanstring, strict). *)
(* ok = FALSE stands for a JSONDecodeError, or a value that is no string.  *)

HexVal(c) ==
    IF c >= 48 /\ c <= 57 THEN c - 48
    ELSE IF c >= 97 /\ c <= 102 THEN c - 87
    ELSE IF c >= 65 /\ c <= 70 THEN c - 55
    ELSE -1

IsHex4(t, i) == i + 3 <= Len(t) /\ \A k \in 0..3 : HexVal(t[i + k]) >= 0

Hex4(t, i) ==
    HexVal(t[i]) * 4096 + HexVal(t[i + 1]) * 256 + HexVal(t[i + 2]) * 16
        + HexVal(t[i + 3])

SimpleEscape(e) ==
    CASE e = 34 -> 34 [] e = 92 -> 92 [] e = 47 -> 47 [] e = 98 -> 8
      [] e = 102 -> 12 [] e = 110 -> 10 [] e = 114 -> 13 [] e = 116 -> 9
      [] OTHER -> -1

Failed == [ok |-> FALSE, val |-> <<>>, next |-> 0]

\* one character of a string literal at i: how many characters of the text
\* it takes (0: malformed) and the character it stands for
ScanChar(t, i) ==
    LET c == t[i]
        Bad == [len |-> 0, ch |-> 0]
    IN  IF c < 32 THEN Bad
        ELSE IF c # 92 THEN [len |-> 1, ch |-> c]
        ELSE IF i + 1 > Len(t) THEN Bad
        ELSE IF t[i + 1] # 117 THEN
            IF SimpleEscape(t[i + 1]) < 0 THEN Bad
            ELSE [len |-> 2, ch |-> SimpleEscape(t[i + 1])]
        ELSE IF ~IsHex4(t, i + 2) THEN Bad
        ELSE LET u == Hex4(t, i + 2)
                 paired ==
                     /\ u >= 55296 /\ u <= 56319
                     /\ i + 7 <= Len(t)
                     /\ t[i + 6] = 92 /\ t[i + 7] = 117
                     /\ IsHex4(t, i + 8)
                     /\ Hex4(t, i + 8) >= 56320
                     /\ Hex4(t, i + 8) <= 57343
             IN  IF paired
                 THEN [len |-> 12,
                       ch |-> 65536 + (u - 55296) * 1024
                                  + (Hex4(t, i + 8) - 56320)]
                 ELSE [len |-> 6, ch |-> u]

\* py_scanstring: the rest of a string literal from i, acc holding the
\* characters read so far; next is the position after the closing quote
RECURSIVE ScanFrom(_, _, _)
ScanFrom(t, i, acc) ==
    IF i > Len(t) THEN Failed
    ELSE IF t[i] = 34 THEN [ok |-> TRUE, val |-> acc, next |-> i + 1]
    ELSE IF ScanChar(t, i).len = 0 THEN Failed
    ELSE ScanFrom(t, i + ScanChar(t, i).len, Append(acc, ScanChar(t, i).ch))

ScanString(t, i) == ScanFrom(t, i, <<>>)

IsWs(c) == c \in {32, 9, 10, 13}

RECURSIVE SkipWs(_, _)
SkipWs(t, i) == IF i <= Len(t) /\ IsWs(t[i]) THEN SkipWs(t, i + 1) ELSE i

At(t, i, c) == i <= Len(t) /\ t[i] = c

\* the members of an object, from the first key at i to the closing brace
RECURSIVE ParseMembers(_, _)
ParseMembers(t, i) ==
    IF ~At(t, i, 34) THEN Failed
    ELSE LET k == ScanString(t, i + 1)
             colon == SkipWs(t, k.next)
             vstart == SkipWs(t, colon + 1)
             v == ScanString(t, vstart + 1)
             after == SkipWs(t, v.next)
         IN  IF ~k.ok \/ ~At(t, colon, 58) \/ ~At(t, vstart, 34) THEN Failed
             ELSE IF ~v.ok THEN Failed
             ELSE IF At(t, after, 125) THEN
                 [ok |-> TRUE, val |-> <<<<k.val, v.val>>>>, next |-> after + 1]
             ELSE IF ~At(t, after, 44) THEN Failed
             ELSE LET r == ParseMembers(t, SkipWs(t, after + 1))
                  IN  IF r.ok THEN [r EXCEPT !.val = <<<<k.val, v.val>>>> \o r.val]
                      ELSE Failed

\* the (key, value) pairs of the object, in the order of the text
ParseObject(t) ==
    LET open == SkipWs(t, 1)
        first == SkipWs(t, open + 1)
        r == IF ~At(t, open, 123) THEN Failed
             ELSE IF At(t, first, 125) THEN
                 [ok |-> TRUE, val |-> <<>>, next |-> first + 1]
             ELSE ParseMembers(t, first)
    IN  IF r.ok /\ SkipWs(t, r.next) = Len(t) + 1 THEN r ELSE Failed

\* the dict the pairs build: a later pair replaces an earlier one with its key
AsDict(items) ==
    [k \in {items[i][1] : i \in DOMAIN items} |->
        LET last == CHOOSE i \in DOMAIN items :
                        /\ items[i][1] = k
                        /\ \A j \in DOMAIN items : items[j][1] = k => j <= i
        IN  items[last][2]]

\* json.loads(body) of a request body
ParseBack(bs) ==
    LET text == decode(bs)
        obj == IF text.ok THEN ParseObject(text.text) ELSE Failed
    IN  IF obj.ok THEN [ok |-> TRUE, dict |-> AsDict(obj.val)]
        ELSE [ok |-> FALSE, dict |-> <<>>]

----------------------------------------------------------------------------
(* Values json.loads yields for a response body, and the Python            *)
(* operations the script applies to them.  Strings inside a response are   *)
(* plain ASCII without quotes or backslashes.                              *)

JNull == [t |-> "null"]
JTrue == [t |-> "true"]
JFalse == [t |-> "false"]
JNum(digits) == [t |-> "num", v |-> digits]
JStr(chars) == [t |-> "str", v |-> chars]
JArr(elems) == [t |-> "arr", items |-> elems]
JObj(pairs) == [t |-> "obj", items |-> pairs]

IsDict(x) == x.t = "obj"

\* dict.get(key, default); the pairs of a dict have distinct keys
Get(d, key, default) ==
    LET at == {i \in DOMAIN d.items : d.items[i][1] = key}
    IN  IF at = {} THEN default ELSE d.items[CHOOSE i \in at : TRUE][2]

\* bool(x)
Truthy(x) ==
    CASE x.t = "null" -> FALSE
      [] x.t = "false" -> FALSE
      [] x.t = "true" -> TRUE
      [] x.t = "num" -> x.v # "0"
      [] x.t = "str" -> x.v # ""
      [] x.t \in {"arr", "obj"} -> x.items # <<>>

RECURSIVE Join(_, _)
Join(parts, sep) ==
    IF parts = <<>> THEN ""
    ELSE IF Len(parts) = 1 THEN parts[1]
    ELSE parts[1] \o sep \o Join(Tail(parts), sep)

\* repr(x), and str(x), which differs from it for a string only
RECURSIVE PyRepr(_)
PyRepr(x) ==
    CASE x.t = "null" -> "None"
      [] x.t = "false" -> "False"
      [] x.t = "true" -> "True"
      [] x.t = "num" -> x.v
      [] x.t = "str" -> "'" \o x.v \o "'"
      [] x.t = "arr" ->
            "[" \o Join([i \in DOMAIN x.items |-> PyRepr(x.items[i])], ", ")
                \o "]"
      [] x.t = "obj" ->
            "{" \o Join([i \in DOMAIN x.items |->
                            "'" \o x.items[i][1] \o "': "
                                \o PyRepr(x.items[i][2])], ", ")
                \o "}"

PyStr(x) == IF x.t = "str" THEN x.v ELSE PyRepr(x)

\* json.dumps(x) of a parsed value
RECURSIVE JsonText(_)
JsonText(x) ==
    CASE x.t \in {"null", "false", "true"} -> x.t
      [] x.t = "num" -> x.v
      [] x.t = "str" -> "\"" \o x.v \o "\""
      [] x.t = "arr" ->
            "[" \o Join([i \in DOMAIN x.items |-> JsonText(x.items[i])], ", ")
                \o "]"
      [] x.t = "obj" ->
            "{" \o Join([i \in DOMAIN x.items |->
                            "\"" \o x.items[i][1] \o "\": "
                                \o JsonText(x.items[i][2])], ", ")
                \o "}"

----------------------------------------------------------------------------
(* What the endpoint and the network can answer to the one request *)

Optional(key, vals) == {<<>>} \cup {<<<<key, v>>>> : v \in vals}

SuccessValues ==
    {JTrue, JFalse, JNull, JNum("0"), JNum("1"), JStr(""), JStr("no"),
     JArr(<<>>), JObj(<<>>)}

PostValues ==
    {JNull, JStr("p"), JArr(<<>>), JObj(<<>>),
     JObj(<<<<"id", JStr("42")>>>>), JObj(<<<<"id", JNum("42")>>>>),
     JObj(<<<<"id", JNull>>>>)}

ObjectBodies ==
    {JObj(s \o p \o e) :
        s \in Optional("success", SuccessValues),
        p \in Optional("post", PostValues),
        e \in Optional("error", {JStr("bad token")})}

OtherBodies == {JNull, JTrue, JNum("1"), JStr("ok"), JArr(<<>>)}

\* a body as json.loads sees it: a value, or the ValueError it raises
ResponseBodies ==
    {[valid |-> TRUE, json |-> j] : j \in ObjectBodies \cup OtherBodies}
        \cup {[valid |-> FALSE, error |-> e] :
                 e \in {"JSONDecodeError", "UnicodeDecodeError"}}

\* bodies of an error response, as bytes: empty, "unauthorized",
\* {"success": true}, an em dash, an invalid byte, a truncated sequence
ErrorBodies ==
    {<<>>,
     Lit(<<"u", "n", "a", "u", "t", "h", "o", "r", "i", "z", "e", "d">>),
     Lit(<<"{", "\"", "s", "u", "c", "c", "e", "s", "s", "\"", ":", " ",
           "t", "r", "u", "e", "}">>),
     <<226, 128, 148>>, <<255>>, <<226, 128>>}

SuccessStatuses == {200, 201}
ErrorStatuses == {401, 500}

\* urlopen returns a response (2xx), raises HTTPError (an error status), or
\* raises another URLError (no response at all).  read_ok = FALSE: reading
\* the body fails midway (http.client.IncompleteRead).
Outcomes ==
    {[kind |-> "response", status |-> c, read_ok |-> TRUE, body |-> b] :
        c \in SuccessStatuses, b \in ResponseBodies}
    \cup {[kind |-> "response", status |-> c, read_ok |-> FALSE] :
             c \in SuccessStatuses}
    \cup {[kind |-> "http_error", code |-> c, read_ok |-> TRUE, bytes |-> b] :
             c \in ErrorStatuses, b \in ErrorBodies}
    \cup {[kind |-> "http_error", code |-> c, read_ok |-> FALSE] :
             c \in ErrorStatuses}
    \cup {[kind |-> "url_error"]}

----------------------------------------------------------------------------
(* The script *)

API_KEY == "API_KEY"    \* the literal of line 5, not repeated here
POSTS_URL == "https://www.moltbook.com/api/v1/posts"
POST_URL_PREFIX == "https://www.moltbook.com/post/"

\* Payload with the number of the run appended to the title
PayloadStamped ==
    encode(json_dumps(<<<<KEY_TITLE, TITLE \o <<48 + run>>>>,
                        <<KEY_CONTENT, CONTENT>>,
                        <<KEY_SUBMOLT_ID, USDC_SUBMOLT>>>>))

\* lines 135-139: json.dumps({...}).encode()
Payload ==
    encode(json_dumps(<<<<KEY_TITLE, TITLE>>, <<KEY_CONTENT, CONTENT>>,
                        <<KEY_SUBMOLT_ID, USDC_SUBMOLT>>>>))

\* lines 141-149: urllib.request.Request(...)
Request(data) ==
    [url |-> POSTS_URL,
     data |-> data,
     headers |-> [Authorization |-> "Bearer " \o API_KEY,
                  ContentType |-> "application/json"],
     method |-> "POST"]

\* how an invocation ends: what it printed, its exit status, the exception
\* that was never caught ("" when there is none), and where it goes next
Ends(lines, status, exc) ==
    [stdout |-> lines, exit_code |-> status, fault |-> exc, pc |-> "exited"]

\* an exception no handler catches: traceback on stderr, exit status 1
Unhandled(exc) == Ends(<<>>, 1, exc)

\* line 155: result.get("post", {}).get("id", "unknown")
PostId(result) ==
    LET post == Get(result, "post", JObj(<<>>))
    IN  IF IsDict(post)
        THEN [raised |-> FALSE, val |-> Get(post, "id", JStr("unknown"))]
        ELSE [raised |-> TRUE, val |-> JNull]

\* lines 154-159, for the result of json.loads
Report(result) ==
    IF ~IsDict(result) THEN Unhandled("AttributeError")
    ELSE IF Truthy(Get(result, "success", JNull)) THEN
        IF PostId(result).raised THEN Unhandled("AttributeError")
        ELSE Ends(<<[fmt |-> "Posted",
                     url |-> POST_URL_PREFIX \o PyStr(PostId(result).val)]>>,
                  0, "")
    ELSE Ends(<<[fmt |-> "Failed", raw |-> JsonText(result)]>>, 1, "")

\* TryBody with a body that is not JSON taken for an empty object
TryBodyLenient(resp) ==
    IF ~resp.read_ok THEN Unhandled("IncompleteRead")
    ELSE IF ~resp.body.valid THEN Report(JObj(<<>>))
    ELSE Report(resp.body.json)

\* lines 152-159: the body of the with statement
TryBody(resp) ==
    IF ~resp.read_ok THEN Unhandled("IncompleteRead")
    ELSE IF ~resp.body.valid THEN Unhandled(resp.body.error)
    ELSE Report(resp.body.json)

\* lines 160-163: except urllib.error.HTTPError as e
ExceptHTTPError(e) ==
    IF ~e.read_ok THEN Unhandled("IncompleteRead")
    ELSE IF ~decode(e.bytes).ok THEN Unhandled("UnicodeDecodeError")
    ELSE Ends(<<[fmt |-> "HTTP", code |-> e.code,
                 body |-> decode(e.bytes).text]>>, 1, "")

\* Handle with the request sent again after an HTTP 5xx
HandleRetrying(o) ==
    CASE o.kind = "response" -> TryBody(o)
      [] o.kind = "http_error" ->
            IF o.code >= 500 THEN [ExceptHTTPError(o) EXCEPT !.pc = "ready"]
            ELSE ExceptHTTPError(o)
      [] o.kind = "url_error" -> Unhandled("URLError")

\* Handle with a transport failure swallowed and the wait resumed
HandleWaitingOn(o) ==
    CASE o.kind = "response" -> TryBody(o)
      [] o.kind = "http_error" -> ExceptHTTPError(o)
      [] o.kind = "url_error" ->
            [stdout |-> <<>>, exit_code |-> -1, fault |-> "",
             pc |-> "awaiting"]

\* lines 151-163: what the script does with the outcome of urlopen
Handle(o) ==
    CASE o.kind = "response" -> TryBody(o)
      [] o.kind = "http_error" -> ExceptHTTPError(o)
      [] o.kind = "url_error" -> Unhandled("URLError")

----------------------------------------------------------------------------
(* Actions *)

\* lines 135-149
Build ==
    /\ pc = "start"
    /\ payload' = Payload
    /\ req' = Request(payload')
    /\ pc' = "ready"
    /\ UNCHANGED <<config, run, wire, outcome, stdout, exit_code, fault,
                   history>>

\* line 152: urlopen(req) sends the request and blocks
Urlopen ==
    /\ pc = "ready"
    /\ wire' = Append(wire, [run |-> run, request |-> req])
    /\ pc' = "awaiting"
    /\ UNCHANGED <<config, run, payload, req, outcome, stdout, exit_code,
                   fault, history>>

\* urlopen returns or raises, and the script runs to its end
Complete(o) ==
    /\ pc = "awaiting"
    /\ outcome' = o
    /\ stdout' = stdout \o Handle(o).stdout
    /\ exit_code' = Handle(o).exit_code
    /\ fault' = Handle(o).fault
    /\ pc' = Handle(o).pc
    /\ UNCHANGED <<config, run, payload, req, wire, history>>

\* the script is started again: a new process with the same literals
Reinvoke ==
    /\ pc = "exited"
    /\ run < MaxRuns
    /\ run' = run + 1
    /\ history' = Append(history, exit_code)
    /\ pc' = "start"
    /\ payload' = <<>>
    /\ req' = None
    /\ outcome' = None
    /\ stdout' = <<>>
    /\ exit_code' = -1
    /\ fault' = ""
    /\ UNCHANGED <<config, wire>>

Fresh ==
    /\ run = 1
    /\ pc = "start"
    /\ payload = <<>>
    /\ req = None
    /\ wire = <<>>
    /\ outcome = None
    /\ stdout = <<>>
    /\ exit_code = -1
    /\ fault = ""
    /\ history = <<>>

\* strings with the kinds of characters the literals of lines 6-133 hold:
\* plain text and an em dash in the title; quotes, line feeds and
\* characters beyond the BMP in the content; plain text in the target
Init ==
    /\ TITLE \in {<<97, 8212, 97>>}
    /\ CONTENT \in {<<34, 97, 34, 10, 129302>>, <<97, 10, 8212>>}
    /\ USDC_SUBMOLT \in {<<97, 110>>}
    /\ Fresh

Next ==
    \/ Build
    \/ Urlopen
    \/ \E o \in Outcomes : Complete(o)
    \/ Reinvoke

Spec == Init /\ [][Next]_vars

\* the network call completes when the network answers or fails
LiveSpec == Spec /\ WF_vars(\E o \in Outcomes : Complete(o))

\* payload construction alone, over every configured string in the bounds
InitPayload ==
    /\ TITLE \in StringsUpTo(MaxStrLen)
    /\ CONTENT \in ShortStrings
    /\ USDC_SUBMOLT \in ShortStrings
    /\ Fresh

PayloadSpec == InitPayload /\ [][Build]_vars

----------------------------------------------------------------------------
(* Vocabulary of the properties *)

Pending == pc \in {"start", "ready", "awaiting"}
Done == pc = "exited"

\* the requests the current invocation has issued
Calls == {i \in DOMAIN wire : wire[i].run = run}

Responded == outcome # None /\ outcome.kind = "response"
HttpFailed == outcome # None /\ outcome.kind = "http_error"
TransportFailed == outcome # None /\ outcome.kind = "url_error"

\* a 2xx response whose body was read and is valid JSON
GotJson == Responded /\ outcome.read_ok /\ outcome.body.valid

\* ... and whose body has a truthy success field
SuccessConfirmed ==
    /\ GotJson
    /\ IsDict(outcome.body.json)
    /\ Truthy(Get(outcome.body.json, "success", JNull))

\* ... and whose body has a success field that is falsy, or has none
SuccessDenied == GotJson /\ ~SuccessConfirmed

\* a 2xx response whose body was read and is not valid JSON
GotGarbage == Responded /\ outcome.read_ok /\ ~outcome.body.valid

\* an error response whose body cannot be read, or cannot be decoded
ErrorBodyLost ==
    HttpFailed /\ (outcome.read_ok => ~decode(outcome.bytes).ok)

Printed(f) == {i \in DOMAIN stdout : stdout[i].fmt = f}

----------------------------------------------------------------------------
(* C1 *)

C1_State ==
    /\ pc \in {"start", "ready"} => Calls = {} /\ outcome = None
    /\ pc = "awaiting" => Cardinality(Calls) = 1 /\ outcome = None
    /\ pc = "exited" => Cardinality(Calls) = 1 /\ outcome \in Outcomes
    /\ \A i \in DOMAIN wire :
           /\ wire[i].request.method = "POST"
           /\ wire[i].request.url = POSTS_URL

C1_Step ==
    run' = run =>
        /\ Done => Done'
        /\ (Pending /\ Done') => (pc = "awaiting" /\ outcome' \in Outcomes)
        /\ Calls \subseteq Calls'

----------------------------------------------------------------------------
(* C2 *)

\* C2: when the script has exited, its exit status is 0 if and only if the
\* success was confirmed (a 2xx response whose JSON body has a truthy success
\* field), and it is 1 in every other case.
C2_ExitZeroIffConfirmed ==
    Done => /\ exit_code = 0 <=> SuccessConfirmed
            /\ ~SuccessConfirmed => exit_code = 1

----------------------------------------------------------------------------
(* C3 *)

\* the identifier C3 names: the id of the post object when there is one, and
\* "unknown" when the post object or its id is absent
C3_Identifier ==
    LET result == outcome.body.json
        post == Get(result, "post", JNull)
    IN  IF IsDict(post) /\ Get(post, "id", None) # None
        THEN PyStr(Get(post, "id", None))
        ELSE "unknown"

\* C3: after a 2xx response whose JSON body has a truthy success field, the
\* script has printed the confirmation line with the URL of the post
\* identifier (the id of the post object, "unknown" without one) and exits
\* with status 0; it never fails.
C3_ConfirmationAlways ==
    (Done /\ SuccessConfirmed) =>
        /\ stdout = <<[fmt |-> "Posted",
                       url |-> POST_URL_PREFIX \o C3_Identifier]>>
        /\ exit_code = 0
        /\ fault = ""

----------------------------------------------------------------------------
(* C4 *)

\* C4: after a 2xx response whose JSON body has a falsy success field or
\* none, the script has printed the JSON response (and no confirmation
\* line), exits with status 1, and has issued no second request.
C4_FailureReported ==
    (Done /\ SuccessDenied) =>
        /\ stdout = <<[fmt |-> "Failed", raw |-> JsonText(outcome.body.json)]>>
        /\ exit_code = 1
        /\ Cardinality(Calls) = 1

----------------------------------------------------------------------------
(* C5 *)

\* C5: after a response with an error status, the script has printed that
\* status code with the error body, and nothing else, and exits with
\* status 1, whatever the body says.
C5_StatusReported ==
    (Done /\ HttpFailed) =>
        /\ Cardinality(Printed("HTTP")) = 1
        /\ \A i \in DOMAIN stdout :
               /\ stdout[i].fmt = "HTTP"
               /\ stdout[i].code = outcome.code
               /\ (outcome.read_ok /\ decode(outcome.bytes).ok)
                      => stdout[i].body = decode(outcome.bytes).text
        /\ exit_code = 1

----------------------------------------------------------------------------
(* C6 *)

\* C6: the body of the request, parsed back as JSON, is an object with
\* exactly the fields title, content and submolt_id, whose values are the
\* configured title, content and target identifier.
C6_RoundTrip ==
    pc = "ready" =>
        LET back == ParseBack(req.data)
        IN  /\ back.ok
            /\ DOMAIN back.dict = {KEY_TITLE, KEY_CONTENT, KEY_SUBMOLT_ID}
            /\ back.dict[KEY_TITLE] = TITLE
            /\ back.dict[KEY_CONTENT] = CONTENT
            /\ back.dict[KEY_SUBMOLT_ID] = USDC_SUBMOLT

\* a request is built for a title of a backslash and an n, a content of a
\* quote and a target beyond the BMP
C6_Witness ==
    /\ pc = "ready"
    /\ TITLE = <<92, 110>>
    /\ CONTENT = <<34>>
    /\ USDC_SUBMOLT = <<129302>>
    /\ ParseBack(req.data).ok

----------------------------------------------------------------------------
(* C7 *)

\* C7: every run that reaches urlopen issues its own request, and all the
\* requests are equal, whatever the earlier runs were answered and however
\* they ended: nothing is skipped and nothing differs.
C7_IdenticalRequests ==
    /\ Len(wire) = (run - 1) + (IF pc \in {"awaiting", "exited"} THEN 1 ELSE 0)
    /\ \A i \in DOMAIN wire : wire[i].run = i
    /\ \A i, j \in DOMAIN wire : wire[i].request = wire[j].request

\* the first run was confirmed, and the second has posted again
C7_Witness == Len(wire) = 2 /\ history = <<0>> /\ pc = "awaiting"

----------------------------------------------------------------------------
(* C8 *)

\* C8: after an error status whose body cannot be read or decoded, the script
\* has still printed the status code line and exits with a non-zero status,
\* not by an unhandled exception.
C8_BestEffortBody ==
    (Done /\ ErrorBodyLost) =>
        /\ \E i \in Printed("HTTP") : stdout[i].code = outcome.code
        /\ exit_code # 0
        /\ fault = ""

----------------------------------------------------------------------------
(* C9 *)

\* C9: after a 2xx response whose body is not valid JSON the script has
\* printed nothing (no confirmation, no failure line, no status line) and
\* ends by an unhandled exception with a non-zero exit status.
C9_MalformedUnhandled ==
    (Done /\ GotGarbage) =>
        /\ stdout = <<>>
        /\ fault = outcome.body.error
        /\ exit_code = 1

C9_Witness == Done /\ GotGarbage /\ outcome.body.error = "JSONDecodeError"

----------------------------------------------------------------------------
(* C10 *)

C10_Step ==
    pc = "awaiting" =>
        \/ pc' = "awaiting" /\ outcome' = None
        \/ pc' = "exited" /\ outcome' \in Outcomes

\* C10: a run whose call completes (with a response or a failure) reaches
\* done; and it leaves the wait for the call by no other step than the one
\* that delivers the outcome of the call: the script has no timeout and no
\* cancellation of its own.
C10_BlocksUntilOutcome ==
    /\ (pc = "awaiting") ~> (pc = "exited")
    /\ [][C10_Step]_vars

\* the call failed at the transport level, and the run is done
C10_Witness == Done /\ TransportFailed /\ exit_code = 1

====
